---- MODULE Spec2Model ----
(***************************************************************************)
(* TimeLeft (src/app.js, src/feedback.js): the task state, its versioned    *)
(* persistence in localStorage, the estimator and the event handlers.      *)
(*                                                                         *)
(* Time is in milliseconds since the epoch, as in a JavaScript Date.  A    *)
(* JavaScript string is a sequence of one-character strings; the two       *)
(* non-ASCII glyphs of the placeholder are the tokens "STOPWATCH" and      *)
(* "EMDASH".  A JavaScript number that may be fractional is a normalised   *)
(* rational [num, den].                                                    *)
(***************************************************************************)
EXTENDS Integers, Sequences, FiniteSets, TLC

VARIABLES
    state,          \* app.js:77   the module-level state object
    now,            \* the system clock read by new Date() / Date.now()
    localStorage,   \* the item stored under STORAGE_KEY
    estimation,     \* app.js:286  the estimation render last computed
    dom,            \* the texts, input values and body classes render writes
    feedbackCalls,  \* the calls of feedback.js the last handler made, in order
    timers,         \* the window's pending timeouts and the next timeout id
    press,          \* app.js:369-370  timeoutId, currentDelay of a wired button
    feedback        \* feedback.js:3-4 el, timeoutId, and the buttons' classes

vars == <<state, now, localStorage, estimation, dom, feedbackCalls,
          timers, press, feedback>>

----------------------------------------------------------------------------
(* Bounds of the model *)

\* largest step count the user types or reaches with the step buttons
MaxSteps == 3
\* the clock runs over the minutes 1..MaxMinute after the epoch
MaxMinute == 2

----------------------------------------------------------------------------
(* JavaScript values *)

Null == [null |-> TRUE]

\* new Date(ms) for an integer ms
Date(t) == [time |-> t]

getTime(d) == d.time

\* ToNumber as applied by the operators < and - : null is 0, a Date its time
ToNumber(v) == IF v = Null THEN 0 ELSE v.time

MsPerSecond == 1000
MsPerMinute == 60 * MsPerSecond
MsPerHour == 60 * MsPerMinute
MsPerDay == 24 * MsPerHour

Abs(n) == IF n < 0 THEN -n ELSE n

RECURSIVE GCD(_, _)
GCD(a, b) == IF b = 0 THEN a ELSE GCD(b, a % b)

\* the number n / d, d > 0, in lowest terms
Rat(n, d) ==
    LET g == GCD(Abs(n), d)
    IN  [num |-> n \div g, den |-> d \div g]

Num(n) == Rat(n, 1)

RatAdd(a, b) == Rat(a.num * b.den + b.num * a.den, a.den * b.den)

RatSub(a, b) == Rat(a.num * b.den - b.num * a.den, a.den * b.den)

RatLess(a, b) == a.num * b.den < b.num * a.den

\* Math.floor
Floor(r) == r.num \div r.den

\* ToIntegerOrInfinity: rounds toward zero
Trunc(r) == IF r.num >= 0 THEN r.num \div r.den ELSE -((-r.num) \div r.den)

\* new Date(number): TimeClip drops the fraction of a millisecond
DateFromNumber(r) == Date(Trunc(r))

DigitChar(d) == <<"0", "1", "2", "3", "4", "5", "6", "7", "8", "9">>[d + 1]

RECURSIVE Digits(_)
Digits(n) == IF n < 10 THEN <<DigitChar(n)>>
             ELSE Digits(n \div 10) \o <<DigitChar(n % 10)>>

\* String(n) for an integer n
String(n) == IF n < 0 THEN <<"-">> \o Digits(-n) ELSE Digits(n)

\* Number(input.value): the empty text is 0, a numeral its value
Number(text) == IF text = <<>> THEN 0 ELSE text[1]

----------------------------------------------------------------------------
(* Storage: app.js 9-71 *)

\* STATE_VERSION = 1.0, in hundredths (earlier variants: 0.8 and 0.72)
STATE_VERSION == 100

SETUP == "setup"
RUNNING == "running"

\* toISOString dropping the milliseconds of the instant
toISOString_NoMillis(d) ==
    [day |-> d.time \div MsPerDay,
     hour |-> (d.time % MsPerDay) \div MsPerHour,
     minute |-> (d.time % MsPerHour) \div MsPerMinute,
     second |-> (d.time % MsPerMinute) \div MsPerSecond,
     ms |-> 0]

\* Date.prototype.toISOString: the UTC fields of the instant
toISOString(d) ==
    [day |-> d.time \div MsPerDay,
     hour |-> (d.time % MsPerDay) \div MsPerHour,
     minute |-> (d.time % MsPerHour) \div MsPerMinute,
     second |-> (d.time % MsPerMinute) \div MsPerSecond,
     ms |-> d.time % MsPerSecond]

\* new Date(isoString)
DateFromISO(s) ==
    Date(s.day * MsPerDay + s.hour * MsPerHour + s.minute * MsPerMinute
         + s.second * MsPerSecond + s.ms)

\* localStorage.getItem of a key never written
NoItem == Null

\* the empty text, which !raw rejects like a missing item
EmptyText == [text |-> ""]

\* a stored text that JSON.parse rejects
Unparsable == [text |-> "garbage"]

\* JSON.stringify(payload): the stored text of a payload
Stringify(payload) == [json |-> payload]

\* the value of a property an object does not have
Undefined == [undefined |-> TRUE]

\* obj[name], undefined when the object has no such property
Get(obj, name) == IF name \in DOMAIN obj THEN obj[name] ELSE Undefined

\* lines 18-27: the payload of state s under version tag v
Payload(v, s) ==
    [version |-> v,
     state |->
        [startDate |-> IF s.startDate /= Null
                       THEN toISOString(s.startDate) ELSE Null,
         lastProgressUpdate |-> IF s.lastProgressUpdate /= Null
                                THEN toISOString(s.lastProgressUpdate)
                                ELSE Null,
         totalSteps |-> s.totalSteps,
         completedSteps |-> s.completedSteps,
         appState |-> s.appState]]

\* the text saveState stores
saveState(s) == Stringify(Payload(STATE_VERSION, s))

createDefaultState ==
    [startDate |-> Null,
     lastProgressUpdate |-> Null,
     totalSteps |-> 0,
     completedSteps |-> 0,
     appState |-> SETUP]

\* lines 61-67: the state read from the state object st of a parsed payload
parsedState(st) ==
    [startDate |-> IF Get(st, "startDate") \in {Null, Undefined}
                   THEN Null ELSE DateFromISO(st.startDate),
     lastProgressUpdate |->
        IF Get(st, "lastProgressUpdate") \in {Null, Undefined}
        THEN Null ELSE DateFromISO(st.lastProgressUpdate),
     totalSteps |-> Get(st, "totalSteps"),
     completedSteps |-> Get(st, "completedSteps"),
     appState |-> Get(st, "appState")]

\* loadOrInitState without the comparison of the version tag
loadOrInitState_NoVersionCheck(raw) ==
    IF raw = NoItem \/ raw = EmptyText THEN createDefaultState
    ELSE IF "json" \notin DOMAIN raw THEN createDefaultState
    ELSE IF raw.json = Null THEN createDefaultState
    ELSE IF Get(raw.json, "state") \in {Null, Undefined}
         THEN createDefaultState
    ELSE parsedState(raw.json.state)

\* A text that does not parse makes JSON.parse throw, a parsed null makes
\* parsed.version throw, a payload without state makes parsed.state.startDate
\* throw: the catch of line 68 returns the default state.
loadOrInitState(raw) ==
    IF raw = NoItem \/ raw = EmptyText THEN createDefaultState
    ELSE IF "json" \notin DOMAIN raw THEN createDefaultState
    ELSE IF raw.json = Null THEN createDefaultState
    ELSE IF "version" \notin DOMAIN raw.json THEN createDefaultState
    ELSE IF raw.json.version /= STATE_VERSION THEN createDefaultState
    ELSE IF Get(raw.json, "state") \in {Null, Undefined}
         THEN createDefaultState
    ELSE parsedState(raw.json.state)

----------------------------------------------------------------------------
(* Pure logic: app.js 97-125 *)

\* isValidState with <= where the code has <: a finished task is accepted
isValidState_AcceptsFinished(s) ==
    /\ s.totalSteps > 0
    /\ s.completedSteps > 0
    /\ s.completedSteps <= s.totalSteps
    /\ ToNumber(s.startDate) < ToNumber(s.lastProgressUpdate)

\* isValidState with <= between the dates: zero elapsed time is accepted
isValidState_AcceptsNoElapsed(s) ==
    /\ s.totalSteps > 0
    /\ s.completedSteps > 0
    /\ s.completedSteps < s.totalSteps
    /\ ToNumber(s.startDate) <= ToNumber(s.lastProgressUpdate)

\* isValidState without the comparison of completedSteps to totalSteps
isValidState_NoUpperBound(s) ==
    /\ s.totalSteps > 0
    /\ s.completedSteps > 0
    /\ ToNumber(s.startDate) < ToNumber(s.lastProgressUpdate)

isValidState(s) ==
    /\ s.totalSteps > 0
    /\ s.completedSteps > 0
    /\ s.completedSteps < s.totalSteps
    /\ ToNumber(s.startDate) < ToNumber(s.lastProgressUpdate)

elapsedDurationMs(s) == ToNumber(s.lastProgressUpdate) - ToNumber(s.startDate)

\* totalDurationMs with the two step counters exchanged
totalDurationMs_Inverted(s) ==
    Rat(s.completedSteps * (ToNumber(s.lastProgressUpdate) - ToNumber(s.startDate)),
        s.totalSteps)

totalDurationMs(s) == Rat(s.totalSteps * elapsedDurationMs(s), s.completedSteps)

remainingSteps(s) == s.totalSteps - s.completedSteps

remainingDurationMs(s) == RatSub(totalDurationMs(s), Num(elapsedDurationMs(s)))

\* estimatedEndDate rounding the fraction of a millisecond up
estimatedEndDate_RoundedUp(s) ==
    Date(-Floor(RatSub(Num(-getTime(s.lastProgressUpdate)),
                       remainingDurationMs(s))))

estimatedEndDate(s) ==
    DateFromNumber(RatAdd(Num(getTime(s.lastProgressUpdate)),
                          remainingDurationMs(s)))

\* lastProgressUpdate.getTime() on null throws; the catch returns null
calculateEstimation(s) ==
    IF ~isValidState(s) THEN Null
    ELSE IF s.lastProgressUpdate = Null THEN Null
    ELSE [elapsedDurationMs |-> elapsedDurationMs(s),
          totalDurationMs |-> totalDurationMs(s),
          remainingSteps |-> remainingSteps(s),
          remainingDurationMs |-> remainingDurationMs(s),
          estimatedEndDate |-> estimatedEndDate(s)]

----------------------------------------------------------------------------
(* Formatting: app.js 177-225 *)

\* String(n).padStart(2, "0")
pad(n) == IF Len(String(n)) >= 2 THEN String(n) ELSE <<"0">> \o String(n)

\* formatDuration without the test for a negative duration
formatDuration_NoNegativeTest(ms) ==
    LET totalSeconds == Floor(Rat(ms.num, ms.den * 1000))
        seconds == totalSeconds % 60
        totalMinutes == totalSeconds \div 60
        minutes == totalMinutes % 60
        hours == totalMinutes \div 60
    IN  <<"STOPWATCH", " ">> \o String(hours) \o <<":">> \o pad(minutes)
           \o <<":">> \o pad(seconds)

\* formatDuration with the hours counted within the day
formatDuration_HoursOfDay(ms) ==
    IF RatLess(ms, Num(0)) THEN <<"STOPWATCH", " ", "EMDASH">>
    ELSE LET totalSeconds == Floor(Rat(ms.num, ms.den * 1000))
             seconds == totalSeconds % 60
             totalMinutes == totalSeconds \div 60
             minutes == totalMinutes % 60
             hours == (totalMinutes \div 60) % 24
         IN  <<"STOPWATCH", " ">> \o String(hours) \o <<":">> \o pad(minutes)
                \o <<":">> \o pad(seconds)

formatDuration(ms) ==
    IF RatLess(ms, Num(0)) THEN <<"STOPWATCH", " ", "EMDASH">>
    ELSE LET totalSeconds == Floor(Rat(ms.num, ms.den * 1000))
             seconds == totalSeconds % 60
             totalMinutes == totalSeconds \div 60
             minutes == totalMinutes % 60
             hours == totalMinutes \div 60
         IN  <<"STOPWATCH", " ">> \o String(hours) \o <<":">> \o pad(minutes)
                \o <<":">> \o pad(seconds)

\* A datetime-local value "YYYY-MM-DDTHH:MM" is <<m>>, m the minutes since the
\* epoch it names (local time taken as UTC); the empty value is <<>>.
parseLocalDateTime(value) ==
    IF value = <<>> THEN Null ELSE Date(value[1] * MsPerMinute)

formatForDatetimeLocal(date) ==
    IF date = Null THEN <<>> ELSE <<date.time \div MsPerMinute>>

----------------------------------------------------------------------------
(* Render: app.js 241-316 *)

\* updateUIState adding the class of the mode and removing none
updateUIState_AddsOnly(classList, s) ==
    IF s.appState = SETUP
    THEN classList \cup {"is-setup"}
    ELSE classList \cup {"is-running"}

updateUIState(classList, s) ==
    IF s.appState = SETUP
    THEN (classList \cup {"is-setup"}) \ {"is-running"}
    ELSE (classList \ {"is-setup"}) \cup {"is-running"}

\* toLocaleTimeString(undefined, {hour12: false}) and toLocaleDateString():
\* the time of day as HH:MM:SS and the day, here as the day count since the epoch
renderDateTime(date) ==
    IF date = Null THEN [time |-> <<"-">>, date |-> <<>>]
    ELSE [time |-> pad((date.time % MsPerDay) \div MsPerHour) \o <<":">>
                   \o pad((date.time % MsPerHour) \div MsPerMinute) \o <<":">>
                   \o pad((date.time % MsPerMinute) \div MsPerSecond),
          date |-> String(date.time \div MsPerDay)]

syncInputsFromState(d, s) ==
    [d EXCEPT !.startDateInput = formatForDatetimeLocal(s.startDate),
              !.totalStepsValue = String(s.totalSteps),
              !.completedStepsValue = String(s.completedSteps),
              !.totalStepsInput = String(s.totalSteps),
              !.completedStepsInput = String(s.completedSteps)]

\* lines 293-296: the texts render writes when there is no estimation
NoEstimationDuration == <<"STOPWATCH", " ", "EMDASH">>

NoEstimationSteps == <<"EMDASH">>

\* lines 292-315: the metrics painted from the estimation
renderMetrics(d, s, est) ==
    IF est = Null
    THEN [d EXCEPT !.elapsedDuration = NoEstimationDuration,
                   !.totalDuration = NoEstimationDuration,
                   !.remainingSteps = NoEstimationSteps,
                   !.remainingDuration = NoEstimationDuration,
                   !.lastProgressUpdate = renderDateTime(Null),
                   !.estimatedEndDate = renderDateTime(Null)]
    ELSE [d EXCEPT !.totalDuration = formatDuration(est.totalDurationMs),
                   !.elapsedDuration = formatDuration(Num(est.elapsedDurationMs)),
                   !.remainingSteps = String(est.remainingSteps),
                   !.remainingDuration = formatDuration(est.remainingDurationMs),
                   !.lastProgressUpdate = renderDateTime(s.lastProgressUpdate),
                   !.estimatedEndDate = renderDateTime(est.estimatedEndDate)]

\* the document after render() on state s
renderDom(d, s) ==
    renderMetrics(
        syncInputsFromState(
            [d EXCEPT !.bodyClassList = updateUIState(d.bodyClassList, s)], s),
        s, calculateEstimation(s))

\* render() without its saveState() call
render_NoSave(s) ==
    /\ estimation' = calculateEstimation(s)
    /\ localStorage' = localStorage
    /\ dom' = renderDom(dom, s)

\* render(): estimate, set the body class, save, sync the inputs, paint
render(s) ==
    /\ estimation' = calculateEstimation(s)
    /\ localStorage' = saveState(s)
    /\ dom' = renderDom(dom, s)

\* the document as loaded, before any script wrote to it
BlankDocument ==
    [bodyClassList |-> {},
     startDateInput |-> <<>>,
     totalStepsValue |-> <<>>,
     completedStepsValue |-> <<>>,
     totalStepsInput |-> <<>>,
     completedStepsInput |-> <<>>,
     elapsedDuration |-> <<>>,
     totalDuration |-> <<>>,
     remainingSteps |-> <<>>,
     remainingDuration |-> <<>>,
     lastProgressUpdate |-> [time |-> <<>>, date |-> <<>>],
     estimatedEndDate |-> [time |-> <<>>, date |-> <<>>]]

----------------------------------------------------------------------------
(* What the user and the clock can supply *)

\* the clock value when the page loads
FirstInstant == MsPerMinute

\* the instants the clock shows: the first, one millisecond later, and each
\* later minute
Instants == {m * MsPerMinute : m \in 1..MaxMinute} \cup {FirstInstant + 1}

\* texts of the two step inputs: empty, or a numeral
StepTexts == {<<>>} \cup {<<n>> : n \in (-1)..MaxSteps}

\* texts of the two increment inputs
IncTexts == {<<0>>, <<1>>, <<2>>}

\* values of the start-date input: empty, or a minute from before the epoch
\* to after the last instant of the clock
DateTexts == {<<>>} \cup {<<m>> : m \in (-1)..(MaxMinute + 1)}

----------------------------------------------------------------------------
(* Step updates: app.js 134-164 *)

Max(a, b) == IF a >= b THEN a ELSE b

Min(a, b) == IF a <= b THEN a ELSE b

\* a call fn(arg) of feedback.js: pulse or shake of an element, or a message
Call(fn, arg) == [fn |-> fn, arg |-> arg]

\* the state after updateTotalSteps(btnElem, delta)
updateTotalSteps(s, delta) ==
    [s EXCEPT !.totalSteps = Max(s.totalSteps + delta, 0)]

\* the feedback of updateTotalSteps decided by the delta instead of by the
\* change of the value
updateTotalStepsFeedback_ByDelta(btnElem, s, delta) ==
    IF delta /= 0
    THEN <<Call("pulse", btnElem)>>
    ELSE <<Call("shake", btnElem)>>

\* lines 138-142: pulse when the value changed, shake otherwise
updateTotalStepsFeedback(btnElem, s, delta) ==
    IF s.totalSteps /= updateTotalSteps(s, delta).totalSteps
    THEN <<Call("pulse", btnElem)>>
    ELSE <<Call("shake", btnElem)>>

\* updateCompletedSteps without its Math.min against totalSteps (line 157)
updateCompletedSteps_NoUpperClamp(s, delta, t) ==
    [s EXCEPT !.completedSteps = Max(s.completedSteps + delta, 0),
              !.lastProgressUpdate = Date(t)]

\* updateCompletedSteps setting the date only when the value changed
updateCompletedSteps_StampsOnChange(s, delta, t) ==
    LET value == Min(Max(s.completedSteps + delta, 0), s.totalSteps)
    IN  IF value = s.completedSteps
        THEN s
        ELSE [s EXCEPT !.completedSteps = value,
                       !.lastProgressUpdate = Date(t)]

\* the state after updateCompletedSteps(btnElem, delta) at clock value t
updateCompletedSteps(s, delta, t) ==
    [s EXCEPT !.completedSteps =
                    Min(Max(s.completedSteps + delta, 0), s.totalSteps),
              !.lastProgressUpdate = Date(t)]

\* lines 159-163: pulse when the value changed, shake otherwise
updateCompletedStepsFeedback(btnElem, s, delta, t) ==
    IF s.completedSteps /= updateCompletedSteps(s, delta, t).completedSteps
    THEN <<Call("pulse", btnElem)>>
    ELSE <<Call("shake", btnElem)>>

----------------------------------------------------------------------------
(* Event handlers: app.js 408-501 *)

\* the clock advances
Tick ==
    /\ UNCHANGED <<timers, press, feedback>>
    /\ \E t \in Instants : t > now /\ now' = t
    /\ UNCHANGED <<state, localStorage, estimation, dom, feedbackCalls>>

\* startDateInput "change", lines 408-411
StartDateInputChange ==
    /\ UNCHANGED <<timers, press, feedback>>
    /\ \E value \in DateTexts :
           /\ state' = [state EXCEPT !.startDate = parseLocalDateTime(value)]
           /\ feedbackCalls' = <<>>
           /\ render(state')
           /\ UNCHANGED now

\* totalStepsInput "input", lines 413-417
TotalStepsInput ==
    /\ UNCHANGED <<timers, press, feedback>>
    /\ \E text \in StepTexts :
           /\ state' = [state EXCEPT !.totalSteps = Number(text)]
           /\ feedbackCalls' = <<>>
           /\ render(state')
           /\ UNCHANGED now

\* completedStepsInput "input", lines 419-424
CompletedStepsInput ==
    /\ UNCHANGED <<timers, press, feedback>>
    /\ \E text \in StepTexts :
           /\ state' = [state EXCEPT !.completedSteps = Number(text),
                                     !.lastProgressUpdate = Date(now)]
           /\ feedbackCalls' = <<>>
           /\ render(state')
           /\ UNCHANGED now

\* addTotalStepsButton callback, lines 426-429
AddTotalSteps ==
    /\ UNCHANGED <<timers, press, feedback>>
    /\ \E inc \in IncTexts :
           /\ state.totalSteps + Number(inc) <= MaxSteps
           /\ state' = updateTotalSteps(state, Number(inc))
           /\ feedbackCalls' =
                 updateTotalStepsFeedback("addTotalStepsButton", state, Number(inc))
           /\ render(state')
           /\ UNCHANGED now

\* subTotalStepsButton callback, lines 431-434
SubTotalSteps ==
    /\ UNCHANGED <<timers, press, feedback>>
    /\ \E inc \in IncTexts :
           /\ state' = updateTotalSteps(state, -Number(inc))
           /\ feedbackCalls' =
                 updateTotalStepsFeedback("subTotalStepsButton", state, -Number(inc))
           /\ render(state')
           /\ UNCHANGED now

\* the reset-total button going back to setup mode as well
ResetTotalSteps_BackToSetup ==
    /\ UNCHANGED <<timers, press, feedback>>
    /\ state' = [state EXCEPT !.totalSteps = 0,
                              !.completedSteps = 0,
                              !.lastProgressUpdate = Date(now),
                              !.appState = SETUP]
    /\ feedbackCalls' = <<Call("pulse", "resetTotalStepsButton")>>
    /\ render(state')
    /\ UNCHANGED now

\* resetTotalStepsButton "click", lines 436-442
ResetTotalSteps ==
    /\ UNCHANGED <<timers, press, feedback>>
    /\ state' = [state EXCEPT !.totalSteps = 0,
                              !.completedSteps = 0,
                              !.lastProgressUpdate = Date(now)]
    /\ feedbackCalls' = <<Call("pulse", "resetTotalStepsButton")>>
    /\ render(state')
    /\ UNCHANGED now

\* lines 445-446, the callback of addCompletedStepsButton, run at clock
\* value t
addCompletedStepsCallback(t) ==
    \E inc \in IncTexts :
        /\ state' = updateCompletedSteps(state, Number(inc), t)
        /\ feedbackCalls' =
              updateCompletedStepsFeedback("addCompletedStepsButton", state,
                                           Number(inc), t)
        /\ render(state')

\* addCompletedStepsButton callback, lines 444-447
AddCompletedSteps ==
    /\ UNCHANGED <<timers, press, feedback>>
    /\ addCompletedStepsCallback(now)
    /\ UNCHANGED now

\* subCompletedStepsButton callback, lines 449-452
SubCompletedSteps ==
    /\ UNCHANGED <<timers, press, feedback>>
    /\ \E inc \in IncTexts :
           /\ state' = updateCompletedSteps(state, -Number(inc), now)
           /\ feedbackCalls' =
                 updateCompletedStepsFeedback("subCompletedStepsButton", state,
                                              -Number(inc), now)
           /\ render(state')
           /\ UNCHANGED now

\* resetCompletedStepsButton "click", lines 454-459
ResetCompletedSteps ==
    /\ UNCHANGED <<timers, press, feedback>>
    /\ state' = [state EXCEPT !.completedSteps = 0,
                              !.lastProgressUpdate = Date(now)]
    /\ feedbackCalls' = <<Call("pulse", "resetCompletedStepsButton")>>
    /\ render(state')
    /\ UNCHANGED now

\* markProgressButton "click", lines 461-465
MarkProgress ==
    /\ UNCHANGED <<timers, press, feedback>>
    /\ state' = [state EXCEPT !.lastProgressUpdate = Date(now)]
    /\ feedbackCalls' = <<Call("pulse", "markProgressButton")>>
    /\ render(state')
    /\ UNCHANGED now

\* the start button without its test of totalSteps (lines 468-472)
StartProcess_NoTotalCheck ==
    /\ UNCHANGED <<timers, press, feedback>>
    /\ LET started == IF state.startDate = Null
                      THEN [state EXCEPT !.startDate = Date(now)]
                      ELSE state
       IN  IF getTime(started.startDate) > now
           THEN /\ state' = started
                /\ feedbackCalls' =
                      <<Call("shake", "startProcessButton"),
                        Call("error", "Start date cannot be in the future!")>>
                /\ UNCHANGED <<now, localStorage, estimation, dom>>
           ELSE /\ state' = [started EXCEPT !.appState = RUNNING,
                                            !.lastProgressUpdate = Date(now)]
                /\ feedbackCalls' = <<Call("pulse", "startProcessButton"),
                                      Call("success", "Process started")>>
                /\ render(state')
                /\ UNCHANGED now

\* the start button without its test of the start date (lines 480-484)
StartProcess_NoFutureCheck ==
    /\ UNCHANGED <<timers, press, feedback>>
    /\ IF state.totalSteps < 1
       THEN /\ feedbackCalls' = <<Call("shake", "startProcessButton"),
                                  Call("error", "Set total work first")>>
            /\ UNCHANGED <<state, now, localStorage, estimation, dom>>
       ELSE LET started == IF state.startDate = Null
                           THEN [state EXCEPT !.startDate = Date(now)]
                           ELSE state
            IN  /\ state' = [started EXCEPT !.appState = RUNNING,
                                            !.lastProgressUpdate = Date(now)]
                /\ feedbackCalls' = <<Call("pulse", "startProcessButton"),
                                      Call("success", "Process started")>>
                /\ render(state')
                /\ UNCHANGED now

\* the start button setting startDate to the clock value whether or not one
\* is set (line 476 without its test)
StartProcess_AlwaysStampsStart ==
    /\ UNCHANGED <<timers, press, feedback>>
    /\ IF state.totalSteps < 1
       THEN /\ feedbackCalls' = <<Call("shake", "startProcessButton"),
                                  Call("error", "Set total work first")>>
            /\ UNCHANGED <<state, now, localStorage, estimation, dom>>
       ELSE LET started == [state EXCEPT !.startDate = Date(now)]
            IN  /\ state' = [started EXCEPT !.appState = RUNNING,
                                            !.lastProgressUpdate = Date(now)]
                /\ feedbackCalls' = <<Call("pulse", "startProcessButton"),
                                      Call("success", "Process started")>>
                /\ render(state')
                /\ UNCHANGED now

\* startProcessButton "click", lines 467-491
StartProcess ==
    /\ UNCHANGED <<timers, press, feedback>>
    /\ IF state.totalSteps < 1
       THEN /\ feedbackCalls' = <<Call("shake", "startProcessButton"),
                                  Call("error", "Set total work first")>>
            /\ UNCHANGED <<state, now, localStorage, estimation, dom>>
       ELSE LET started == IF state.startDate = Null
                           THEN [state EXCEPT !.startDate = Date(now)]
                           ELSE state
            IN  IF getTime(started.startDate) > now
                THEN /\ state' = started
                     /\ feedbackCalls' =
                           <<Call("shake", "startProcessButton"),
                             Call("error", "Start date cannot be in the future!")>>
                     /\ UNCHANGED <<now, localStorage, estimation, dom>>
                ELSE /\ state' = [started EXCEPT !.appState = RUNNING,
                                                 !.lastProgressUpdate = Date(now)]
                     /\ feedbackCalls' = <<Call("pulse", "startProcessButton"),
                                           Call("success", "Process started")>>
                     /\ render(state')
                     /\ UNCHANGED now

\* the new-process button without its assignment to startDate (line 497)
ResetProcess_KeepsStartDate ==
    /\ UNCHANGED <<timers, press, feedback>>
    /\ state' = [state EXCEPT !.appState = SETUP,
                              !.completedSteps = 0,
                              !.totalSteps = 0]
    /\ feedbackCalls' = <<Call("pulse", "resetProcessButton"),
                          Call("info", "New process")>>
    /\ render(state')
    /\ UNCHANGED now

\* the new-process button assigning a fresh default state
ResetProcess_Wholesale ==
    /\ UNCHANGED <<timers, press, feedback>>
    /\ state' = createDefaultState
    /\ feedbackCalls' = <<Call("pulse", "resetProcessButton"),
                          Call("info", "New process")>>
    /\ render(state')
    /\ UNCHANGED now

\* resetProcessButton "click", lines 493-501
ResetProcess ==
    /\ UNCHANGED <<timers, press, feedback>>
    /\ state' = [state EXCEPT !.appState = SETUP,
                              !.completedSteps = 0,
                              !.totalSteps = 0,
                              !.startDate = Null]
    /\ feedbackCalls' = <<Call("pulse", "resetProcessButton"),
                          Call("info", "New process")>>
    /\ render(state')
    /\ UNCHANGED now

----------------------------------------------------------------------------
(* Timeouts of the window *)

\* the value setTimeout returns
TimeoutId(n) == [id |-> n]

\* no timeout pending, none ever set
NoTimers == [nextId |-> 1, pending |-> {}]

\* setTimeout(fn, delay) at clock value t: the delay loses its fraction, the
\* id is one never returned before
setTimeout(q, fn, delay, t) ==
    [nextId |-> q.nextId + 1,
     pending |-> q.pending \cup
                    {[id |-> TimeoutId(q.nextId), fn |-> fn,
                      delay |-> Trunc(delay), due |-> t + Trunc(delay)]}]

\* clearTimeout cancelling nothing
clearTimeout_CancelsNothing(q, id) == q

\* clearTimeout(id): null and the id of a timeout no longer pending do nothing
clearTimeout(q, id) ==
    [q EXCEPT !.pending = {tm \in @ : tm.id /= id}]

\* the pending timeouts the window runs next: those due first
DueFirst(q) ==
    {tm \in q.pending : \A other \in q.pending : tm.due <= other.due}

\* the number of timeouts a run may have pending at once
MaxPending == 2

\* the number of setTimeout calls feedback.js may make in a run
MaxFeedbackTimeouts == 4

\* the number of setTimeout calls a run may make
MaxTimeouts == 10

----------------------------------------------------------------------------
(* feedback.js *)

\* the buttons the handlers hand to pulse and shake
FeedbackButtons == {"startProcessButton", "addTotalStepsButton"}

\* the messages the handlers hand to error, success and info
ErrorMessages == {"Set total work first", "Start date cannot be in the future!"}

\* the module as loaded: nothing shown, no timeout set, no class on a button
NoFeedback ==
    [el |-> [textContent |-> "", className |-> {"feedback"}],
     timeoutId |-> Null,
     classList |-> [btn \in FeedbackButtons |-> {}]]

\* lines 6-21: show(message, type, duration) at the clock value now
show(message, type, duration) ==
    /\ timers.nextId <= MaxFeedbackTimeouts
    /\ feedback' =
        [feedback EXCEPT
            !.el = [textContent |-> message,
                    className |-> {"feedback", type, "show"} \cup
                                  (IF type = "error" THEN {"shake"} ELSE {})],
            !.timeoutId = TimeoutId(timers.nextId)]
    /\ timers' = setTimeout(clearTimeout(timers, feedback.timeoutId),
                            [name |-> "hide", el |-> "feedback"],
                            Num(duration), now)

\* lines 27-29
error ==
    /\ \E msg \in ErrorMessages : show(msg, "error", 1400)
    /\ UNCHANGED <<state, now, localStorage, estimation, dom, feedbackCalls,
                   press>>

\* lines 31-33
success ==
    /\ show("Process started", "success", 900)
    /\ UNCHANGED <<state, now, localStorage, estimation, dom, feedbackCalls,
                   press>>

\* lines 35-37
info ==
    /\ show("New process", "info", 1000)
    /\ UNCHANGED <<state, now, localStorage, estimation, dom, feedbackCalls,
                   press>>

\* lines 43-49
pulse ==
    /\ \E btn \in FeedbackButtons :
        feedback' = [feedback EXCEPT
                        !.classList[btn] = (@ \ {"pulse"}) \cup {"pulse"}]
    /\ UNCHANGED <<state, now, localStorage, estimation, dom, feedbackCalls,
                   timers, press>>

\* lines 51-59
shake ==
    /\ timers.nextId <= MaxFeedbackTimeouts
    /\ \E btn \in FeedbackButtons :
        /\ feedback' = [feedback EXCEPT
                           !.classList[btn] = @ \cup {"shake", "error-flash"}]
        /\ timers' = setTimeout(timers, [name |-> "unshake", el |-> btn],
                                Num(300), now)
    /\ UNCHANGED <<state, now, localStorage, estimation, dom, feedbackCalls,
                   press>>

\* a timeout of feedback.js that also removes the stored item
TimeoutFires_RemovesItem ==
    /\ \E tm \in DueFirst(timers) :
        /\ now' = Max(now, tm.due)
        /\ timers' = [timers EXCEPT !.pending = @ \ {tm}]
        /\ feedback' =
            IF tm.fn.name = "hide"
            THEN [feedback EXCEPT !.el.className = @ \ {"show", "shake"}]
            ELSE [feedback EXCEPT
                    !.classList[tm.fn.el] = @ \ {"shake", "error-flash"}]
    /\ localStorage' = NoItem
    /\ UNCHANGED <<state, estimation, dom, feedbackCalls, press>>

\* a timeout comes due: lines 18-20 remove show and shake from the message,
\* lines 56-58 remove shake and error-flash from the button
TimeoutFires ==
    /\ \E tm \in DueFirst(timers) :
        /\ now' = Max(now, tm.due)
        /\ timers' = [timers EXCEPT !.pending = @ \ {tm}]
        /\ feedback' =
            IF tm.fn.name = "hide"
            THEN [feedback EXCEPT !.el.className = @ \ {"show", "shake"}]
            ELSE [feedback EXCEPT
                    !.classList[tm.fn.el] = @ \ {"shake", "error-flash"}]
    /\ UNCHANGED <<state, localStorage, estimation, dom, feedbackCalls,
                   press>>

----------------------------------------------------------------------------
(* Press and hold: attachRepeatingPress, app.js 359-402, as wired to
   addCompletedStepsButton at lines 444-447 *)

initialDelay == 400
repeatDelay == 200
minDelay == 60
acceleration == Rat(85, 100)

RatDiv(a, b) == Rat(a.num * b.den, a.den * b.num)

RatMul(a, b) == Rat(a.num * b.num, a.den * b.den)

\* a < b, comparing the whole parts first so that the products stay small
RatLessWide(a, b) ==
    IF Floor(a) /= Floor(b) THEN Floor(a) < Floor(b)
    ELSE (a.num - Floor(a) * a.den) * b.den
            < (b.num - Floor(b) * b.den) * a.den

\* line 374: Math.max(minDelay, currentDelay * acceleration); the product is
\* formed only when it is the larger of the two
acceleratedDelay(delay) ==
    IF RatLessWide(delay, RatDiv(Num(minDelay), acceleration))
    THEN Num(minDelay)
    ELSE RatMul(delay, acceleration)

\* lines 369-370: let timeoutId = null; let currentDelay = repeatDelay
IdlePress == [timeoutId |-> Null, currentDelay |-> Num(repeatDelay)]

\* lines 378-389, "mousedown" or "touchstart": reset the delay, run the
\* callback, schedule step after the initial delay
start ==
    /\ timers.nextId <= MaxTimeouts
    /\ Cardinality(timers.pending) < MaxPending
    /\ addCompletedStepsCallback(now)
    /\ timers' = setTimeout(timers, "step", Num(initialDelay), now)
    /\ press' = [timeoutId |-> TimeoutId(timers.nextId),
                 currentDelay |-> Num(repeatDelay)]
    /\ UNCHANGED <<now, feedback>>

\* lines 372-376, a timeout set for step comes due: run the callback, shorten
\* the delay, schedule step again
step ==
    /\ timers.nextId <= MaxTimeouts
    /\ \E tm \in DueFirst(timers) :
        /\ tm.fn = "step"
        /\ now' = Max(now, tm.due)
        /\ addCompletedStepsCallback(now')
        /\ LET delay == acceleratedDelay(press.currentDelay)
               fired == [timers EXCEPT !.pending = @ \ {tm}]
           IN  /\ timers' = setTimeout(fired, "step", delay, now')
               /\ press' = [timeoutId |-> TimeoutId(timers.nextId),
                            currentDelay |-> delay]
    /\ UNCHANGED feedback

\* lines 391-394, "mouseup", "mouseleave" or "touchend"
stop ==
    /\ timers' = clearTimeout(timers, press.timeoutId)
    /\ press' = [press EXCEPT !.timeoutId = Null]
    /\ UNCHANGED <<state, now, localStorage, estimation, dom, feedbackCalls,
                   feedback>>

\* time passes with no timeout coming due: shortly after the page is loaded,
\* so that two events can be less than minDelay apart
PressWait ==
    /\ now < FirstInstant + minDelay
    /\ \A tm \in timers.pending : now + minDelay \div 2 <= tm.due
    /\ now' = now + minDelay \div 2
    /\ UNCHANGED <<state, localStorage, estimation, dom, feedbackCalls,
                   timers, press, feedback>>

\* the page loaded with one step of work to do and nothing done
InitPress ==
    /\ state = [createDefaultState EXCEPT !.totalSteps = 1]
    /\ now = FirstInstant
    /\ estimation = calculateEstimation(state)
    /\ localStorage = saveState(state)
    /\ dom = renderDom(syncInputsFromState(BlankDocument, state), state)
    /\ feedbackCalls = <<>>
    /\ timers = NoTimers
    /\ press = IdlePress
    /\ feedback = NoFeedback

NextPress ==
    \/ start
    \/ step
    \/ stop
    \/ PressWait

PressSpec == InitPress /\ [][NextPress]_vars

----------------------------------------------------------------------------
(* The program *)

\* what the storage slot can hold when the page loads: nothing, a text that
\* does not parse, a record of an earlier version, a record this version saved
InitialItems ==
    {NoItem,
     Unparsable,
     Stringify([version |-> 80,
                state |-> [startDate |-> Null, lastMeasurementDate |-> Null,
                           totalSteps |-> 2, completedSteps |-> 1,
                           appState |-> RUNNING]]),
     saveState([startDate |-> Date(FirstInstant),
                lastProgressUpdate |-> Date(FirstInstant),
                totalSteps |-> 2, completedSteps |-> 1,
                appState |-> RUNNING])}

\* lines 77 and 508-509: load, sync the inputs, render
Init ==
    \E raw \in InitialItems :
        /\ state = loadOrInitState(raw)
        /\ now = FirstInstant
        /\ estimation = calculateEstimation(state)
        /\ localStorage = saveState(state)
        /\ dom = renderDom(syncInputsFromState(BlankDocument, state), state)
        /\ feedbackCalls = <<>>
        /\ timers = NoTimers
        /\ press = IdlePress
        /\ feedback = NoFeedback

Next ==
    \/ Tick
    \/ StartDateInputChange
    \/ TotalStepsInput
    \/ CompletedStepsInput
    \/ AddTotalSteps
    \/ SubTotalSteps
    \/ ResetTotalSteps
    \/ AddCompletedSteps
    \/ SubCompletedSteps
    \/ ResetCompletedSteps
    \/ MarkProgress
    \/ StartProcess
    \/ ResetProcess

Spec == Init /\ [][Next]_vars

\* feedback.js on its own, on the page as loaded
NextFeedback ==
    \/ error
    \/ success
    \/ info
    \/ pulse
    \/ shake
    \/ TimeoutFires

FeedbackSpec == Init /\ [][NextFeedback]_vars

----------------------------------------------------------------------------
(* The estimator on its own: calculateEstimation applied to any state *)

\* the local const estimation of render before line 286 has run
Pending == [pending |-> TRUE]

\* dates given to the estimator: none, before and at the epoch, the instants
\* of the clock, ten minutes after the first
DateInputs ==
    {Null} \cup {Date(t) : t \in {-MsPerMinute, 0} \cup Instants
                                  \cup {FirstInstant + 10 * MsPerMinute}}

\* step counters given to the estimator
StepInputs == ((-1)..MaxSteps) \cup {25, 100}

EstimatorInputs ==
    [startDate : DateInputs,
     lastProgressUpdate : DateInputs,
     totalSteps : StepInputs,
     completedSteps : StepInputs,
     appState : {SETUP, RUNNING}]

InitEstimator ==
    /\ state \in EstimatorInputs
    /\ estimation = Pending
    /\ now = FirstInstant
    /\ localStorage = NoItem
    /\ dom = BlankDocument
    /\ feedbackCalls = <<>>
    /\ timers = NoTimers
    /\ press = IdlePress
    /\ feedback = NoFeedback

\* a call of an estimator that clamps completedSteps in the state it is given
Estimate_ClampsState ==
    /\ UNCHANGED <<timers, press, feedback>>
    /\ estimation = Pending
    /\ estimation' = calculateEstimation(state)
    /\ state' = [state EXCEPT !.completedSteps =
                        Min(Max(state.completedSteps, 0), state.totalSteps)]
    /\ UNCHANGED <<now, localStorage, dom, feedbackCalls>>

\* line 286: const estimation = calculateEstimation(state)
Estimate ==
    /\ UNCHANGED <<timers, press, feedback>>
    /\ estimation = Pending
    /\ estimation' = calculateEstimation(state)
    /\ UNCHANGED <<state, now, localStorage, dom, feedbackCalls>>

NextEstimator == Estimate

EstimatorSpec == InitEstimator /\ [][NextEstimator]_vars

----------------------------------------------------------------------------
(* The display layer on its own: lines 292-315 applied to any estimation *)

\* durations handed to the display: negative, zero, fractional, long
DurationInputs ==
    {Rat(n, d) : n \in {-MsPerHour, -1500, -1, 0, 1, 1500, MsPerMinute - 1,
                        MsPerMinute, MsPerHour + 1, 2 * MsPerHour - 1,
                        25 * MsPerHour},
                 d \in {1, 2}}

EstimationInputs ==
    {Null} \cup
    [elapsedDurationMs : {1, MsPerMinute, MsPerHour},
     totalDurationMs : {Num(MsPerMinute), Num(MsPerDay + 1)},
     remainingSteps : {1},
     remainingDurationMs : DurationInputs,
     estimatedEndDate : {Date(FirstInstant)}]

InitDisplay ==
    /\ estimation \in EstimationInputs
    /\ state = [createDefaultState EXCEPT
                    !.lastProgressUpdate = Date(FirstInstant)]
    /\ now = FirstInstant
    /\ localStorage = NoItem
    /\ dom = BlankDocument
    /\ feedbackCalls = <<>>
    /\ timers = NoTimers
    /\ press = IdlePress
    /\ feedback = NoFeedback

\* lines 292-315 of render
Paint ==
    /\ UNCHANGED <<timers, press, feedback>>
    /\ dom' = renderMetrics(dom, state, estimation)
    /\ UNCHANGED <<state, now, localStorage, estimation, feedbackCalls>>

NextDisplay == Paint

DisplaySpec == InitDisplay /\ [][NextDisplay]_vars

----------------------------------------------------------------------------
(* Data-model invariants, checked under Spec *)

\* C1: after every mutation by any handler, in any order, completedSteps
\* lies in [0, totalSteps]
C1_CompletedWithinTotal ==
    /\ 0 <= state.completedSteps
    /\ state.completedSteps <= state.totalSteps

\* C2: in every reachable state totalSteps is not negative
C2_TotalNeverNegative == state.totalSteps >= 0

\* C3: in every reachable state where appState is "running", startDate is
\* non-null and not later than the clock
C3_RunningHasPastStart ==
    state.appState = RUNNING =>
        /\ state.startDate /= Null
        /\ getTime(state.startDate) <= now

\* C4: whenever startDate or lastProgressUpdate is null, the estimation that
\* calculateEstimation returned is null, whatever the step counters are
C4_NoDatesNoResult ==
    (state.startDate = Null \/ state.lastProgressUpdate = Null) =>
        estimation = Null

----------------------------------------------------------------------------
(* The estimator, checked under EstimatorSpec *)

\* the validity precondition as the specification states it
ValidityPrecondition(s) ==
    /\ s.totalSteps > 0
    /\ 0 < s.completedSteps
    /\ s.completedSteps < s.totalSteps
    /\ s.startDate /= Null
    /\ s.lastProgressUpdate /= Null
    /\ s.startDate.time < s.lastProgressUpdate.time

\* C5: with totalSteps <= 0, completedSteps <= 0 or completedSteps >=
\* totalSteps, calculateEstimation returns null whatever the dates are
C5_NoResultAtBounds ==
    (/\ estimation /= Pending
     /\ \/ state.totalSteps <= 0
        \/ state.completedSteps <= 0
        \/ state.completedSteps >= state.totalSteps)
    => estimation = Null

\* calculateEstimation has returned null for a finished task with valid dates
C5_FinishedTaskEstimated ==
    /\ estimation = Null
    /\ state.totalSteps > 0
    /\ state.completedSteps = state.totalSteps
    /\ state.startDate /= Null
    /\ state.lastProgressUpdate /= Null
    /\ state.startDate.time < state.lastProgressUpdate.time

\* C6: with both dates present and startDate >= lastProgressUpdate,
\* calculateEstimation returns null, also when 0 < completedSteps < totalSteps
C6_NoResultWithoutElapsed ==
    (/\ estimation /= Pending
     /\ state.startDate /= Null
     /\ state.lastProgressUpdate /= Null
     /\ state.startDate.time >= state.lastProgressUpdate.time)
    => estimation = Null

\* calculateEstimation has returned null for a task in progress whose two
\* dates are equal
C6_ZeroElapsedEstimated ==
    /\ estimation = Null
    /\ 0 < state.completedSteps
    /\ state.completedSteps < state.totalSteps
    /\ state.startDate /= Null
    /\ state.lastProgressUpdate = state.startDate

\* C7: for a state that passes the validity precondition the result holds
\* elapsed = lastProgressUpdate - startDate, totalEstimated = totalSteps *
\* elapsed / completedSteps, remainingSteps = totalSteps - completedSteps,
\* remainingTime = totalEstimated - elapsed and, where the division is exact,
\* estimatedEndDate = lastProgressUpdate + remainingTime
C7_ResultFields ==
    (estimation /= Pending /\ ValidityPrecondition(state)) =>
        /\ estimation /= Null
        /\ LET elapsed == state.lastProgressUpdate.time - state.startDate.time
               total == estimation.totalDurationMs
               remaining == estimation.remainingDurationMs
           IN  /\ estimation.elapsedDurationMs = elapsed
               /\ total.num * state.completedSteps
                    = state.totalSteps * elapsed * total.den
               /\ estimation.remainingSteps
                    = state.totalSteps - state.completedSteps
               /\ remaining.num * total.den
                    = (total.num - elapsed * total.den) * remaining.den
               /\ (state.totalSteps * elapsed) % state.completedSteps = 0 =>
                    estimation.estimatedEndDate.time
                        = state.lastProgressUpdate.time
                          + (state.totalSteps * elapsed) \div state.completedSteps
                          - elapsed

\* the scenario of the specification has been estimated: 25 of 100 steps in
\* ten minutes give forty minutes in all, thirty left, the end at T + 40 min
C7_ScenarioEstimated ==
    /\ state.totalSteps = 100
    /\ state.completedSteps = 25
    /\ state.startDate /= Null
    /\ state.lastProgressUpdate /= Null
    /\ state.lastProgressUpdate.time - state.startDate.time = 10 * MsPerMinute
    /\ estimation /= Pending
    /\ estimation /= Null
    /\ estimation.elapsedDurationMs = 10 * MsPerMinute
    /\ estimation.totalDurationMs = Num(40 * MsPerMinute)
    /\ estimation.remainingSteps = 75
    /\ estimation.remainingDurationMs = Num(30 * MsPerMinute)
    /\ estimation.estimatedEndDate
         = Date(state.startDate.time + 40 * MsPerMinute)

C9_CanBeNegative ==
    \E s \in EstimatorInputs :
        /\ s.appState = state.appState
        /\ calculateEstimation(s) /= Null
        /\ RatLess(calculateEstimation(s).remainingDurationMs, Num(0))

\* C9 as amended: every result calculateEstimation returns has a remainingTime
\* above zero, returned as computed: (totalSteps - completedSteps) * elapsed /
\* completedSteps
C9_RemainingPositive ==
    (estimation /= Pending /\ estimation /= Null) =>
        /\ RatLess(Num(0), estimation.remainingDurationMs)
        /\ estimation.remainingDurationMs.num * state.completedSteps
             = (state.totalSteps - state.completedSteps)
               * estimation.elapsedDurationMs
               * estimation.remainingDurationMs.den

\* a task one step short of its total, progressing for one millisecond, has
\* been estimated: the smallest remainingTime of the inputs
C9_NearlyDoneEstimated ==
    /\ estimation /= Pending
    /\ estimation /= Null
    /\ state.completedSteps = state.totalSteps - 1
    /\ estimation.elapsedDurationMs = 1
    /\ RatLess(estimation.remainingDurationMs, Num(1))

----------------------------------------------------------------------------
(* The display of a duration, checked under DisplaySpec *)

\* the display has been painted from an estimation whose remaining duration
\* is negative
NegativePainted ==
    /\ dom /= BlankDocument
    /\ estimation /= Null
    /\ RatLess(estimation.remainingDurationMs, Num(0))

----------------------------------------------------------------------------
(* Storage on its own: the page loads from any stored item, renders (which
   saves), is closed and loads again *)

\* states that are saved and loaded back: either mode, dates null or set,
\* 0 <= completedSteps <= totalSteps
RoundTripStates ==
    {s \in [startDate : DateInputs,
            lastProgressUpdate : DateInputs,
            totalSteps : 0..MaxSteps,
            completedSteps : 0..MaxSteps,
            appState : {SETUP, RUNNING}] :
        s.completedSteps <= s.totalSteps}

\* version tags other than the current one: the earlier variants' and the next
OtherVersions == {72, 80, STATE_VERSION + 1}

\* states of records under the current version tag that break the data
\* model: a negative total, more steps completed than there are, a mode that
\* is neither "setup" nor "running", a running task with no start date
CorruptStates ==
    {[createDefaultState EXCEPT !.totalSteps = -1],
     [createDefaultState EXCEPT !.totalSteps = 1, !.completedSteps = 2],
     [createDefaultState EXCEPT !.appState = "paused"],
     [createDefaultState EXCEPT !.totalSteps = 1, !.appState = RUNNING]}

\* what the slot can hold: nothing, the empty text, a text that does not
\* parse, a JSON null, a payload without state, a record of an earlier variant
\* of the file, records saved under another version, records saved by this
\* one, records under the current version that break the data model
StoredItems ==
    {NoItem, EmptyText, Unparsable, Stringify(Null),
     Stringify([version |-> STATE_VERSION]),
     Stringify([version |-> 80,
                state |-> [startDate |-> Null, lastMeasurementDate |-> Null,
                           totalSteps |-> 2, completedSteps |-> 1,
                           appState |-> RUNNING]])}
    \cup {Stringify(Payload(v, s)) :
            v \in OtherVersions,
            s \in {r \in RoundTripStates : r.totalSteps = MaxSteps}}
    \cup {saveState(s) : s \in RoundTripStates}
    \cup {saveState(s) : s \in CorruptStates}

\* the page is not loaded: the module has not run
InitStorage ==
    /\ localStorage \in StoredItems
    /\ state = Pending
    /\ estimation = Pending
    /\ dom = BlankDocument
    /\ now = FirstInstant
    /\ feedbackCalls = <<>>
    /\ timers = NoTimers
    /\ press = IdlePress
    /\ feedback = NoFeedback

\* line 77: const state = loadOrInitState()
Load ==
    /\ UNCHANGED <<timers, press, feedback>>
    /\ state = Pending
    /\ state' = loadOrInitState(localStorage)
    /\ UNCHANGED <<now, localStorage, estimation, dom, feedbackCalls>>

\* the first render without its saveState() call
InitialRender_NoSave ==
    /\ UNCHANGED <<timers, press, feedback>>
    /\ state /= Pending
    /\ estimation = Pending
    /\ estimation' = calculateEstimation(state)
    /\ localStorage' = localStorage
    /\ dom' = renderDom(syncInputsFromState(dom, state), state)
    /\ UNCHANGED <<state, now, feedbackCalls>>

\* lines 508-509: syncInputsFromState(); render()
InitialRender ==
    /\ UNCHANGED <<timers, press, feedback>>
    /\ state /= Pending
    /\ estimation = Pending
    /\ estimation' = calculateEstimation(state)
    /\ localStorage' = saveState(state)
    /\ dom' = renderDom(syncInputsFromState(dom, state), state)
    /\ UNCHANGED <<state, now, feedbackCalls>>

\* the page is closed: the module's state is gone, the stored item stays
Unload ==
    /\ UNCHANGED <<timers, press, feedback>>
    /\ estimation /= Pending
    /\ state' = Pending
    /\ estimation' = Pending
    /\ dom' = BlankDocument
    /\ UNCHANGED <<now, localStorage, feedbackCalls>>

NextStorage ==
    \/ Load
    \/ InitialRender
    \/ Unload

StorageSpec == InitStorage /\ [][NextStorage]_vars

----------------------------------------------------------------------------
(* Persistence, checked under StorageSpec *)

\* the state has been loaded and the page not yet rendered
JustLoaded == state /= Pending /\ estimation = Pending

\* the slot is absent or empty, does not parse, or carries a version tag other
\* than STATE_VERSION
SlotRejected ==
    \/ localStorage = NoItem
    \/ "json" \notin DOMAIN localStorage
    \/ /\ localStorage.json /= Null
       /\ "version" \in DOMAIN localStorage.json
       /\ localStorage.json.version /= STATE_VERSION

\* C11: loadOrInitState returns the default state (appState "setup", both
\* counters 0, both dates null) when the slot is absent, does not parse or
\* carries another version tag; it returns a state in every case
C11_DefaultOnRejectedSlot ==
    JustLoaded =>
        /\ DOMAIN state = {"startDate", "lastProgressUpdate", "totalSteps",
                           "completedSteps", "appState"}
        /\ SlotRejected =>
            /\ state.appState = "setup"
            /\ state.totalSteps = 0
            /\ state.completedSteps = 0
            /\ state.startDate = Null
            /\ state.lastProgressUpdate = Null

\* the default state has been loaded from a record of a running task saved
\* under the version after the current one
C11_NextVersionRecordLoaded ==
    /\ JustLoaded
    /\ "json" \in DOMAIN localStorage
    /\ localStorage.json /= Null
    /\ "version" \in DOMAIN localStorage.json
    /\ localStorage.json.version = STATE_VERSION + 1
    /\ localStorage.json.state.appState = RUNNING
    /\ localStorage.json.state.startDate /= Null
    /\ state.appState = "setup"
    /\ state.totalSteps = 0
    /\ state.startDate = Null

\* C12: for every valid state s, loadOrInitState of the item saveState(s)
\* stored is s, field by field
C12_RoundTrip ==
    JustLoaded =>
        \A s \in RoundTripStates :
            localStorage = saveState(s) =>
                /\ state.startDate = s.startDate
                /\ state.lastProgressUpdate = s.lastProgressUpdate
                /\ state.totalSteps = s.totalSteps
                /\ state.completedSteps = s.completedSteps
                /\ state.appState = s.appState

\* a running task whose dates are not on a whole second has been loaded back
\* from the record saved for it
C12_RunningTaskLoadedBack ==
    /\ JustLoaded
    /\ state \in RoundTripStates
    /\ localStorage = saveState(state)
    /\ state.appState = RUNNING
    /\ state.startDate /= Null
    /\ state.startDate.time % MsPerSecond = 1
    /\ state.lastProgressUpdate /= Null
    /\ state.completedSteps > 0

----------------------------------------------------------------------------
(* Persistence and the start and reset buttons, checked under Spec *)

\* C13: after every handler the storage slot holds the current version tag
\* and the serialization of the in-memory state (dates as ISO-8601 text or
\* null, counters and mode as they are), so that loading it gives that state
C13_StorageHoldsCurrentState ==
    /\ localStorage =
        [json |->
            [version |-> STATE_VERSION,
             state |->
                [startDate |->
                    IF state.startDate = Null THEN Null
                    ELSE toISOString(state.startDate),
                 lastProgressUpdate |->
                    IF state.lastProgressUpdate = Null THEN Null
                    ELSE toISOString(state.lastProgressUpdate),
                 totalSteps |-> state.totalSteps,
                 completedSteps |-> state.completedSteps,
                 appState |-> state.appState]]]
    /\ loadOrInitState(localStorage) = state

\* a handler has run on a running task with progress, and the slot holds the
\* record of that task
C13_RunningTaskSaved ==
    /\ feedbackCalls /= <<>>
    /\ state.appState = RUNNING
    /\ state.completedSteps > 0
    /\ state.lastProgressUpdate /= Null
    /\ state.lastProgressUpdate.time > FirstInstant
    /\ localStorage.json.state.appState = RUNNING
    /\ localStorage.json.state.completedSteps = state.completedSteps
    /\ localStorage.json.state.lastProgressUpdate /= Null

\* what the start button reports when it refuses for want of total work
TotalWorkRefused ==
    <<Call("shake", "startProcessButton"),
      Call("error", "Set total work first")>>

\* what the start button reports when it refuses a start date in the future
FutureStartRefused ==
    <<Call("shake", "startProcessButton"),
      Call("error", "Start date cannot be in the future!")>>

\* what the start button reports when the process starts
ProcessStarted ==
    <<Call("pulse", "startProcessButton"),
      Call("success", "Process started")>>

\* C14: the start button pressed with totalSteps < 1 is refused: no field of
\* the state changes (the mode stays as it was, "setup" when it was "setup"),
\* the stored record and the page do not change, only the message is shown
C14_RefusedWithoutTotal ==
    [][(StartProcess /\ state.totalSteps < 1) =>
        /\ state'.startDate = state.startDate
        /\ state'.lastProgressUpdate = state.lastProgressUpdate
        /\ state'.totalSteps = state.totalSteps
        /\ state'.completedSteps = state.completedSteps
        /\ state'.appState = state.appState
        /\ localStorage' = localStorage
        /\ dom' = dom
        /\ feedbackCalls' = TotalWorkRefused]_vars

\* the start button has been refused in setup mode for want of total work,
\* with a start date entered
C14_RefusedInSetup ==
    /\ feedbackCalls = TotalWorkRefused
    /\ state.appState = SETUP
    /\ state.totalSteps < 1
    /\ state.startDate /= Null

\* C15: the start button pressed with totalSteps >= 1 and a start date later
\* than the clock value is refused: mode, both dates, both counters and the
\* stored record are unchanged
C15_RefusedFutureStart ==
    [][(/\ StartProcess
        /\ state.totalSteps >= 1
        /\ state.startDate /= Null
        /\ getTime(state.startDate) > now) =>
        /\ state'.appState = state.appState
        /\ state'.startDate = state.startDate
        /\ state'.lastProgressUpdate = state.lastProgressUpdate
        /\ state'.totalSteps = state.totalSteps
        /\ state'.completedSteps = state.completedSteps
        /\ localStorage' = localStorage
        /\ feedbackCalls' = FutureStartRefused]_vars

\* the start button has been refused in setup mode with total work set and a
\* start date after the clock value
C15_FutureStartRefusedInSetup ==
    /\ feedbackCalls = FutureStartRefused
    /\ state.appState = SETUP
    /\ state.totalSteps >= 1
    /\ state.startDate /= Null
    /\ getTime(state.startDate) > now

\* C16: the start button pressed with totalSteps >= 1 and a start date unset
\* or not after the clock value sets the mode to "running", sets startDate to
\* the clock value when it was unset and keeps it otherwise, sets
\* lastProgressUpdate to the clock value and keeps both counters
C16_StartedProcess ==
    [][(/\ StartProcess
        /\ state.totalSteps >= 1
        /\ (state.startDate = Null \/ getTime(state.startDate) <= now)) =>
        /\ state'.appState = "running"
        /\ state.startDate = Null => state'.startDate = Date(now)
        /\ state.startDate /= Null => state'.startDate = state.startDate
        /\ state'.lastProgressUpdate = Date(now)
        /\ state'.totalSteps = state.totalSteps
        /\ state'.completedSteps = state.completedSteps]_vars

\* a process has been started with a start date entered earlier than the
\* clock value, which it kept
C16_StartedWithEarlierStart ==
    /\ feedbackCalls = ProcessStarted
    /\ state.appState = RUNNING
    /\ state.totalSteps >= 1
    /\ state.startDate /= Null
    /\ state.lastProgressUpdate = Date(now)
    /\ getTime(state.startDate) < now

\* what the new-process button reports
NewProcessReported ==
    <<Call("pulse", "resetProcessButton"),
      Call("info", "New process")>>

\* C17: the new-process button can be pressed in every state, and pressing it
\* yields mode "setup", totalSteps 0, completedSteps 0 and startDate null,
\* with the stored record holding the same
C17_ResetToSetup ==
    /\ [](ENABLED ResetProcess)
    /\ [][ResetProcess =>
            /\ state'.appState = "setup"
            /\ state'.totalSteps = 0
            /\ state'.completedSteps = 0
            /\ state'.startDate = Null
            /\ localStorage'.json.version = STATE_VERSION
            /\ localStorage'.json.state.appState = "setup"
            /\ localStorage'.json.state.totalSteps = 0
            /\ localStorage'.json.state.completedSteps = 0
            /\ localStorage'.json.state.startDate = Null]_vars

\* the new-process button has been pressed and the stored record is that of
\* an empty task in setup mode
C17_ResetSaved ==
    /\ feedbackCalls = NewProcessReported
    /\ state.appState = SETUP
    /\ state.totalSteps = 0
    /\ state.startDate = Null
    /\ localStorage.json.state.appState = SETUP
    /\ localStorage.json.state.startDate = Null

\* C18 as stated: after the new-process button the state equals the freshly
\* defaulted state in every field, lastProgressUpdate null included
C18_ResetGivesDefaultState ==
    feedbackCalls = NewProcessReported => state = createDefaultState

\* C18: the new-process button gives the default state except for
\* lastProgressUpdate, which keeps the value it had; the result is the
\* default state exactly when lastProgressUpdate was null
C18_ResetKeepsProgressDate ==
    [][ResetProcess =>
        /\ state' = [createDefaultState EXCEPT
                        !.lastProgressUpdate = state.lastProgressUpdate]
        /\ (state' = createDefaultState) <=>
                (state.lastProgressUpdate = Null)]_vars

\* the new-process button has been pressed on a task with a progress date,
\* which is still set
C18_ProgressDateSurvivesReset ==
    /\ feedbackCalls = NewProcessReported
    /\ state.appState = SETUP
    /\ state.totalSteps = 0
    /\ state.completedSteps = 0
    /\ state.startDate = Null
    /\ state.lastProgressUpdate /= Null

----------------------------------------------------------------------------
(* The step buttons, checked under Spec *)

\* the deltas tried: more than enough to cross either end of 0..totalSteps
Deltas == -(MaxSteps + 2)..(MaxSteps + 2)

\* C19: from a state with 0 <= completedSteps <= totalSteps,
\* updateCompletedSteps(delta) gives completedSteps + delta when that lies in
\* 0..totalSteps, exactly totalSteps when it is above and exactly 0 when it is
\* below
C19_CompletedStepsClamped ==
    (0 <= state.completedSteps /\ state.completedSteps <= state.totalSteps)
    =>
    \A delta \in Deltas :
        LET sum == state.completedSteps + delta
            result == updateCompletedSteps(state, delta, now).completedSteps
        IN  /\ sum > state.totalSteps => result = state.totalSteps
            /\ sum < 0 => result = 0
            /\ (0 <= sum /\ sum <= state.totalSteps) => result = sum

\* the add button has raised completedSteps to exactly totalSteps
C19_RaisedToTotal ==
    /\ feedbackCalls = <<Call("pulse", "addCompletedStepsButton")>>
    /\ state.totalSteps >= 1
    /\ state.completedSteps = state.totalSteps

\* C20: the add and subtract buttons of completedSteps, which call
\* updateCompletedSteps, set lastProgressUpdate to the clock value whatever
\* the increment, also when completedSteps does not change; the add and
\* subtract buttons of totalSteps, which call updateTotalSteps, leave
\* lastProgressUpdate as it was
C20_OnlyCompletedStepsStamp ==
    [][/\ (AddCompletedSteps \/ SubCompletedSteps) =>
                state'.lastProgressUpdate = Date(now)
       /\ (AddTotalSteps \/ SubTotalSteps) =>
                state'.lastProgressUpdate = state.lastProgressUpdate]_vars

\* the add button was pressed with completedSteps at totalSteps, which did not
\* change it, later than any earlier progress date, and the date is the clock
\* value
C20_StampedWithoutChange ==
    /\ feedbackCalls = <<Call("shake", "addCompletedStepsButton")>>
    /\ state.totalSteps >= 1
    /\ state.completedSteps = state.totalSteps
    /\ now > FirstInstant
    /\ state.lastProgressUpdate = Date(now)

\* C21: updateTotalSteps(delta), called by the add and subtract buttons of
\* totalSteps from a state with 0 <= completedSteps <= totalSteps, sets
\* totalSteps to max(totalSteps + delta, 0) and leaves totalSteps >= 0 and
\* completedSteps <= totalSteps
C21_TotalStepsKeepsInvariants ==
    [][(/\ AddTotalSteps \/ SubTotalSteps
        /\ 0 <= state.completedSteps
        /\ state.completedSteps <= state.totalSteps) =>
        /\ state'.totalSteps \in
                {Max(state.totalSteps + delta, 0) : delta \in Deltas}
        /\ state'.totalSteps >= 0
        /\ state'.completedSteps <= state'.totalSteps]_vars

----------------------------------------------------------------------------
(* Frame conditions *)

----------------------------------------------------------------------------
(* Press and hold, checked under PressSpec *)

\* C25: a start event runs the callback once at once, schedules the first
\* repeat initialDelay later and sets the delay back to repeatDelay; each
\* repeat runs the callback once, no sooner than minDelay after the callback
\* ran last, and schedules the next repeat after
\* max(minDelay, currentDelay * acceleration), which is at least minDelay and
\* no longer than the wait that just ended
C25_RepeatIntervals ==
    [][/\ start =>
            /\ Len(feedbackCalls') = 1
            /\ state'.lastProgressUpdate = Date(now)
            /\ press'.currentDelay = Num(repeatDelay)
            /\ \E tm \in timers'.pending :
                /\ tm.id = press'.timeoutId
                /\ tm.due = now + initialDelay
       /\ step =>
            /\ Len(feedbackCalls') = 1
            /\ state'.lastProgressUpdate = Date(now')
            /\ now' - getTime(state.lastProgressUpdate) >= minDelay
            /\ \E tm \in timers'.pending :
                /\ tm.id = press'.timeoutId
                /\ tm.due - now' >= minDelay
                /\ tm.due - now' <= now' - getTime(state.lastProgressUpdate)
                /\ tm.delay = Trunc(acceleratedDelay(press.currentDelay))]_vars

\* C26: after a stop event the callback does not run again before the next
\* start event.  stop leaves timeoutId null, start and step leave it set, so
\* timeoutId is null exactly from a stop event to the next start event: no
\* repeat runs while it is null
C26_NoRepeatAfterStop ==
    [][step => press.timeoutId /= Null]_vars

----------------------------------------------------------------------------
(* feedback.js, checked under FeedbackSpec *)

\* C23: error, success, info, pulse and shake, and the timeouts they set when
\* these come due, change no field of the state and not the stored record
C23_FeedbackLeavesState ==
    [][(error \/ success \/ info \/ pulse \/ shake \/ TimeoutFires) =>
        /\ state'.startDate = state.startDate
        /\ state'.lastProgressUpdate = state.lastProgressUpdate
        /\ state'.totalSteps = state.totalSteps
        /\ state'.completedSteps = state.completedSteps
        /\ state'.appState = state.appState
        /\ localStorage' = localStorage]_vars

\* on a running task an error was shown and has been hidden by its timeout,
\* and no timeout is left pending
C23_ErrorShownAndHidden ==
    /\ state.appState = RUNNING
    /\ localStorage.json.state.appState = RUNNING
    /\ feedback.el.textContent \in ErrorMessages
    /\ feedback.el.className = {"feedback", "error"}
    /\ timers.nextId > 2
    /\ timers.pending = {}

----------------------------------------------------------------------------
(* Modes, checked under Spec *)

\* C24: after every render the body has exactly one of the classes is-setup
\* and is-running: is-setup when appState is "setup" and only then,
\* is-running otherwise
C24_OneModeClass ==
    /\ ("is-setup" \in dom.bodyClassList) <=> (state.appState = "setup")
    /\ ("is-running" \in dom.bodyClassList) <=> (state.appState /= "setup")
    /\ Cardinality(dom.bodyClassList \cap {"is-setup", "is-running"}) = 1

\* a task with a progress date has been reset, and the body has is-setup
\* alone
C24_BackToSetupClass ==
    /\ feedbackCalls = NewProcessReported
    /\ state.lastProgressUpdate /= Null
    /\ state.appState = SETUP
    /\ "is-setup" \in dom.bodyClassList
    /\ "is-running" \notin dom.bodyClassList

\* C27: appState changes only by the start button, from "setup" to "running",
\* and by the new-process button, to "setup": a step of any other handler
\* (the inputs, the step buttons, the two step-reset buttons, mark-progress)
\* leaves it as it is, and the start button pressed on a running task leaves
\* it "running"
C27_ModeChangesByStartAndReset ==
    [][/\ (state'.appState /= state.appState) =>
            \/ /\ StartProcess
               /\ state.appState = "setup"
               /\ state'.appState = "running"
            \/ /\ ResetProcess
               /\ state'.appState = "setup"
       /\ (StartProcess /\ state.appState = "running") =>
            state'.appState = "running"]_vars

\* the start button has been pressed on a running task, and refused for want
\* of total work: the task is still running
C27_RefusedWhileRunning ==
    /\ feedbackCalls = TotalWorkRefused
    /\ state.appState = RUNNING
    /\ state.totalSteps < 1

\* C28: in every reachable state with appState "running", totalSteps >= 1
C28_RunningHasTotalWork ==
    state.appState = RUNNING => state.totalSteps >= 1

----------------------------------------------------------------------------
(* Start-up, checked under StorageSpec *)

\* the slot holds a record loadOrInitState accepts: it parses, carries the
\* current version tag and a state object
SlotAccepted ==
    /\ "json" \in DOMAIN localStorage
    /\ localStorage.json /= Null
    /\ "version" \in DOMAIN localStorage.json
    /\ localStorage.json.version = STATE_VERSION
    /\ "state" \in DOMAIN localStorage.json

\* C29: the state loadOrInitState returns for a record it accepts has a mode
\* that is "setup" or "running", totalSteps >= 0,
\* 0 <= completedSteps <= totalSteps, and a start date when the mode is
\* "running"; a record that breaks one of these gives the default state
C29_AcceptedRecordIsValid ==
    (JustLoaded /\ SlotAccepted) =>
        \/ /\ state.appState \in {"setup", "running"}
           /\ state.totalSteps >= 0
           /\ 0 <= state.completedSteps
           /\ state.completedSteps <= state.totalSteps
           /\ state.appState = "running" => state.startDate /= Null
        \/ state = createDefaultState

\* the slot holds a record with a version tag other than the current one
SlotOfOtherVersion ==
    /\ "json" \in DOMAIN localStorage
    /\ localStorage.json /= Null
    /\ "version" \in DOMAIN localStorage.json
    /\ localStorage.json.version /= STATE_VERSION

\* C30: the first render, which ends the start-up, leaves in the slot the
\* record of the in-memory state under the current version tag, whatever the
\* slot held; over a record of another version that is the record of the
\* default state
C30_StartUpOverwritesSlot ==
    [][InitialRender =>
        /\ "json" \in DOMAIN localStorage'
        /\ localStorage'.json /= Null
        /\ "version" \in DOMAIN localStorage'.json
        /\ localStorage'.json.version = STATE_VERSION
        /\ "state" \in DOMAIN localStorage'.json
        /\ localStorage'.json.state =
                Payload(STATE_VERSION, state').state
        /\ loadOrInitState(localStorage') = state'
        /\ SlotOfOtherVersion =>
                /\ state' = createDefaultState
                /\ localStorage'.json.state.appState = "setup"
                /\ localStorage'.json.state.totalSteps = 0
                /\ localStorage'.json.state.startDate = Null]_vars

\* the start-up has finished with the default state in memory and its record,
\* under the current version tag, in the slot
C30_DefaultRecordAfterStartUp ==
    /\ state = createDefaultState
    /\ estimation = Null
    /\ "is-setup" \in dom.bodyClassList
    /\ localStorage.json.version = STATE_VERSION
    /\ localStorage.json.state.totalSteps = 0
    /\ localStorage.json.state.lastProgressUpdate = Null

----------------------------------------------------------------------------
(* The first estimate after a start, checked under Spec *)

\* both dates are set and are the same instant, as a start without a start
\* date leaves them
NoTimeElapsed ==
    /\ state.startDate /= Null
    /\ state.startDate = state.lastProgressUpdate

\* the step stamps lastProgressUpdate with a later instant than it held
StampedLater ==
    /\ state'.lastProgressUpdate /= Null
    /\ getTime(state'.lastProgressUpdate) > getTime(state.lastProgressUpdate)

\* the step leaves lastProgressUpdate and gives the start date another value,
\* which counts as an earlier number (a cleared date counts as 0)
StartDateMovedBack ==
    /\ state'.lastProgressUpdate = state.lastProgressUpdate
    /\ state'.startDate /= state.startDate
    /\ ToNumber(state'.startDate) < getTime(state.lastProgressUpdate)

\* a start without a start date leaves startDate = lastProgressUpdate and no
\* estimate, whatever the two counters are
FreshStartHasNoEstimate ==
    (StartProcess /\ state.startDate = Null /\ feedbackCalls' = ProcessStarted)
        => /\ state'.startDate = state'.lastProgressUpdate
           /\ estimation' = Null
           /\ \A total, completed \in 0..(MaxSteps + 1) :
                  calculateEstimation(
                      [state' EXCEPT !.totalSteps = total,
                                     !.completedSteps = completed]) = Null

\* C31 as stated, for the operation that follows the start: after a start
\* that left startDate = lastProgressUpdate there is no estimate, and the next
\* operation shows an estimate (with a start date still set) only if it stamps
\* lastProgressUpdate with a later clock value
C31_EstimateOnlyAfterLaterStamp ==
    [][/\ FreshStartHasNoEstimate
       /\ (/\ feedbackCalls = ProcessStarted
           /\ NoTimeElapsed
           /\ state'.startDate /= Null
           /\ estimation' /= Null) => StampedLater]_vars

\* C31: after a start without a start date, startDate equals
\* lastProgressUpdate and there is no estimate whatever the counters are, and
\* while the two dates are equal an estimate appears only in a step that
\* stamps lastProgressUpdate with a later clock value or that changes the
\* start date to an earlier one (or clears it)
C31_EstimateAfterStampOrEarlierStart ==
    [][/\ FreshStartHasNoEstimate
       /\ (NoTimeElapsed /\ estimation' /= Null) =>
              (StampedLater \/ StartDateMovedBack)]_vars

\* a process has just been started without a start date, with counters that
\* would give an estimate if time had elapsed
C31_FreshStartWithProgress ==
    /\ feedbackCalls = ProcessStarted
    /\ state.appState = RUNNING
    /\ state.startDate = Date(now)
    /\ state.lastProgressUpdate = Date(now)
    /\ 0 < state.completedSteps
    /\ state.completedSteps < state.totalSteps
    /\ estimation = Null

----------------------------------------------------------------------------
(* The progress date through a session, checked under Spec, whose clock only
   advances and whose stored progress date is not after the clock *)

\* what the mark-progress button reports
ProgressMarked == <<Call("pulse", "markProgressButton")>>

\* C32: once lastProgressUpdate is set, no handler clears it or moves it
\* back; the new-process button leaves it as it is; the mark-progress button
\* sets it to the clock value and changes no other field of the state
C32_ProgressDateOnlyAdvances ==
    [][/\ state.lastProgressUpdate /= Null =>
              /\ state'.lastProgressUpdate /= Null
              /\ getTime(state'.lastProgressUpdate) >=
                     getTime(state.lastProgressUpdate)
       /\ ResetProcess =>
              state'.lastProgressUpdate = state.lastProgressUpdate
       /\ MarkProgress =>
              /\ state'.lastProgressUpdate = Date(now)
              /\ state'.startDate = state.startDate
              /\ state'.totalSteps = state.totalSteps
              /\ state'.completedSteps = state.completedSteps
              /\ state'.appState = state.appState]_vars

\* the mark-progress button has moved the progress date of a running task
\* forward from the start date to a later clock value
C32_ProgressMarkedLater ==
    /\ feedbackCalls = ProgressMarked
    /\ state.appState = RUNNING
    /\ state.startDate /= Null
    /\ state.lastProgressUpdate = Date(now)
    /\ getTime(state.startDate) < now
    /\ now > FirstInstant

----------------------------------------------------------------------------
(* The timeout of the feedback message, checked under FeedbackSpec *)

\* the pending timeouts that hide the feedback message
HideTimers == {tm \in timers.pending : tm.fn.name = "hide"}

\* the time a message of the type shown stays: error 1400 ms, success 900 ms,
\* info 1000 ms
DurationShown ==
    IF "error" \in feedback.el.className THEN 1400
    ELSE IF "success" \in feedback.el.className THEN 900
    ELSE 1000

\* C33: at most one timeout that hides the feedback message is pending; it is
\* the one the latest show set, with the duration of that message's type
\* counted from the instant of that show, and the message is visible while it
\* is pending and hidden once none is pending, so a timeout of an earlier
\* message never hides a later one
C33_OneHideTimer ==
    /\ Cardinality(HideTimers) <= 1
    /\ \A tm \in HideTimers :
           /\ tm.id = feedback.timeoutId
           /\ tm.delay = DurationShown
           /\ tm.due - tm.delay <= now
           /\ now <= tm.due
           /\ "show" \in feedback.el.className
    /\ HideTimers = {} => "show" \notin feedback.el.className

\* the message "Process started" was shown after earlier timeouts had been
\* set and the clock had advanced, and the timeout set for it is the only
\* one pending that hides the message
C33_LaterMessageVisible ==
    /\ feedback.el.textContent = "Process started"
    /\ feedback.el.className = {"feedback", "success", "show"}
    /\ now > FirstInstant
    /\ \E tm \in HideTimers :
           /\ tm.id \notin {TimeoutId(1), TimeoutId(2)}
           /\ tm.due = now + 900

----------------------------------------------------------------------------
(* The feedback of the step buttons, checked under Spec *)

\* the calls signal exactly one of pulse and shake on the button: pulse when
\* the counter went from prev to another value, shake when it kept prev
SignalsChange(calls, btnElem, prev, value) ==
    /\ Len(calls) = 1
    /\ calls[1].arg = btnElem
    /\ calls[1].fn \in {"pulse", "shake"}
    /\ calls[1].fn = "pulse" <=> value /= prev
    /\ calls[1].fn = "shake" <=> value = prev

\* C34: updateTotalSteps and updateCompletedSteps signal exactly one of pulse
\* and shake: pulse when the clamped result differs from the previous value
\* of the counter and only then, shake when it equals it and only then, which
\* happens only with delta 0 or with the counter at a bound (0, or totalSteps
\* for completedSteps)
C34_PulseOrShake ==
    \A delta \in Deltas :
        LET total == updateTotalSteps(state, delta).totalSteps
            completed == updateCompletedSteps(state, delta, now).completedSteps
        IN  /\ SignalsChange(
                   updateTotalStepsFeedback("addTotalStepsButton", state, delta),
                   "addTotalStepsButton", state.totalSteps, total)
            /\ SignalsChange(
                   updateCompletedStepsFeedback("addCompletedStepsButton",
                                                state, delta, now),
                   "addCompletedStepsButton", state.completedSteps, completed)
            /\ total = state.totalSteps =>
                   (delta = 0 \/ state.totalSteps = 0)
            /\ completed = state.completedSteps =>
                   (delta = 0 \/ state.completedSteps = 0
                              \/ state.completedSteps = state.totalSteps)

\* the subtract button of completedSteps was pressed on a running task with
\* the counter at 0, which it left there, and shook
C34_ShookAtZero ==
    /\ feedbackCalls = <<Call("shake", "subCompletedStepsButton")>>
    /\ state.appState = RUNNING
    /\ state.totalSteps >= 1
    /\ state.completedSteps = 0

----------------------------------------------------------------------------
(* The fields of a formatted duration, checked under DisplaySpec *)

Numerals == {DigitChar(d) : d \in 0..9}

\* the number a text of decimal digits writes
RECURSIVE NumeralValue(_)
NumeralValue(text) ==
    IF text = <<>> THEN 0
    ELSE 10 * NumeralValue(SubSeq(text, 1, Len(text) - 1))
         + (CHOOSE d \in 0..9 : DigitChar(d) = text[Len(text)])

\* the text is the stopwatch sign, a space and H:MM:SS with one or more
\* digits of hours and two each of minutes and seconds
IsClockText(text) ==
    /\ Len(text) >= 9
    /\ text[1] = "STOPWATCH"
    /\ text[2] = " "
    /\ text[Len(text) - 2] = ":"
    /\ text[Len(text) - 5] = ":"
    /\ \A i \in 3..Len(text) :
           i \notin {Len(text) - 2, Len(text) - 5} => text[i] \in Numerals

HoursOf(text) == NumeralValue(SubSeq(text, 3, Len(text) - 6))

MinutesOf(text) == NumeralValue(SubSeq(text, Len(text) - 4, Len(text) - 3))

SecondsOf(text) == NumeralValue(SubSeq(text, Len(text) - 1, Len(text)))

\* the text shows a whole number ms >= 0 of milliseconds as hours, minutes
\* below 60 and seconds below 60 that add up to floor(ms / 1000) seconds
ShowsDuration(text, ms) ==
    /\ IsClockText(text)
    /\ MinutesOf(text) \in 0..59
    /\ SecondsOf(text) \in 0..59
    /\ HoursOf(text) * 3600 + MinutesOf(text) * 60 + SecondsOf(text)
          = ms \div 1000

\* C35: formatDuration of a whole number ms >= 0 of milliseconds gives hours,
\* minutes and seconds with 0 <= minutes <= 59, 0 <= seconds <= 59 and
\* hours * 3600 + minutes * 60 + seconds = floor(ms / 1000), the hours going
\* past 24 when the duration does
C35_DurationFields ==
    (dom /= BlankDocument /\ estimation /= Null) =>
        /\ ShowsDuration(dom.elapsedDuration, estimation.elapsedDurationMs)
        /\ (estimation.totalDurationMs.den = 1) =>
               ShowsDuration(dom.totalDuration, estimation.totalDurationMs.num)
        /\ (/\ estimation.remainingDurationMs.den = 1
            /\ estimation.remainingDurationMs.num >= 0) =>
               ShowsDuration(dom.remainingDuration,
                             estimation.remainingDurationMs.num)

\* a remaining duration of twenty-five hours has been painted as 25:00:00
\* and a total duration of a day and a millisecond as 24:00:00
C35_MoreThanADayPainted ==
    /\ dom /= BlankDocument
    /\ estimation /= Null
    /\ estimation.remainingDurationMs = Num(25 * MsPerHour)
    /\ estimation.totalDurationMs = Num(MsPerDay + 1)
    /\ dom.remainingDuration =
          <<"STOPWATCH", " ", "2", "5", ":", "0", "0", ":", "0", "0">>
    /\ HoursOf(dom.totalDuration) = 24

====
